---- MODULE Spec2Model ----
(***************************************************************************)
(* Ghefira-Cashflow: the balance ledger of transactionController.js.      *)
(* The stores are the Saldo, Transaction and Category collections; the    *)
(* operations are the route handlers POST /models, POST "", PUT /:id and  *)
(* DELETE /:id.  Spec runs whole handlers one at a time with every write  *)
(* succeeding, SpecFault lets one write of a handler fail, and SpecConc   *)
(* interleaves two handlers at their await points.                        *)
(* The classifier service of the same file (loadModel, saveModel,         *)
(* trainClassifier, predictCategory, POST /reset-model) is SpecModel: the *)
(* live model, its readiness flag and the two model files; SpecTrain      *)
(* interleaves trainings and predictions at the awaits of trainClassifier.*)
(* SpecCrash lets the process die inside saveModel and start again.       *)
(* SpecEval applies POST /evaluate-model and POST /cross-validate to      *)
(* every store of up to MaxSample documents.                              *)
(***************************************************************************)
EXTENDS Integers, FiniteSets, Sequences, Bags, TLC

\* ------------------------------------------------------------- bounds
MaxTx   == 2    \* transaction ids 1..MaxTx are handed out, never reused
MaxAmt  == 2    \* the largest amount of a request
MaxInit == 1    \* the amount every Saldo is created with
MaxOps  == 3    \* handlers run per behaviour of Spec / SpecFault
MaxSample == 11 \* documents in the Transaction store of SpecEval

\* ------------------------------------------------------------- domains
SaldoIds     == {"s1", "s2"}          \* the stored Saldo documents
MissingSaldo == "s9"                  \* a well-formed id of no stored Saldo
Omitted      == "omitted"             \* a field absent from req.body (undefined)
Types        == {"income", "expense"}
Labels       == {"Food", "food"}      \* what predictCategory may return: any of them
PatternLabels == {"food", "f.od", "fo(d"}   \* labels that read as patterns, in SpecPattern
SomeSaldo    == SaldoIds \cup {MissingSaldo}
TxIds        == 1..MaxTx
Amounts      == {1, MaxAmt}           \* the amounts requests carry

\* String.prototype.toLowerCase on the labels of the model
Lower(name) == IF name = "Food" THEN "food" ELSE name

CatNames == {Lower(l) : l \in Labels}

\* The slot of a transaction id that holds no document.
NoTx == [saldo |-> "none", amount |-> 0, type |-> "none", category |-> "none"]

TxDocs == [saldo : SaldoIds, amount : Amounts, type : Types, category : CatNames]

\* req.body of PUT /:id, the fields the balance depends on: each is optional,
\* and amount is read only when hasAmount holds.
Patches ==
    {p \in [saldo     : SaldoIds \cup {MissingSaldo, Omitted},
            hasAmount : BOOLEAN,
            amount    : Amounts,
            type      : Types \cup {Omitted}] : ~p.hasAmount => p.amount = 1}

\* Which awaited write of a handler rejects: none, the (first) Saldo save,
\* or the Transaction write (create / findByIdAndUpdate / deleteOne).
Faults == {"none", "saldoSave", "txWrite"}

\* ------------------------------------------------------------- model and files
\* The state of a bayes classifier is the bag of the examples it has learned.
\* The text of an example is `${description} ${type}`.toLowerCase(); the
\* documents here carry no description, so the text is the type.
EmptyModel == EmptyBag

Example(tx) ==
    [text  |-> tx.type,
     label |-> IF tx.category = "none" THEN "unknown" ELSE tx.category]

learn(model, tx) == model (+) SetToBag({Example(tx)})

\* A file is absent, empty (zero length or white space), malformed (not the
\* JSON of a classifier) or the JSON of a model.
NoFile        == [kind |-> "absent",    model |-> EmptyModel]
EmptyFile     == [kind |-> "empty",     model |-> EmptyModel]
MalformedFile == [kind |-> "malformed", model |-> EmptyModel]

toJson(model)  == [kind |-> "json", model |-> model]
existsSync(f)  == f.kind # "absent"
Parses(f)      == f.kind = "json"      \* JSON.parse and bayes.fromJson do not throw
fromJson(f)    == f.model

NoDate == 0                            \* lastTrainingDate = null

\* A request that is not running.  skip and trainedCount are the locals of
\* trainClassifier; before is the live model when the training started.
IdleRun == [op |-> "none", pc |-> "idle", type |-> "none", skip |-> 0,
            trainedCount |-> 0, before |-> EmptyModel]

\* The documents SpecModel finds in the Transaction store, and the models of
\* the files it finds on disk.
Doc(type, category) == [saldo |-> "s1", amount |-> 1, type |-> type, category |-> category]

\* (a document whose category was deleted is populated with null)
TrainDocs == {Doc("expense", "food"), Doc("income", "none")}

\* The ledger specifications start after loadModel() has loaded this model at
\* start-up: the service is Ready, and predictCategory is one categorize call
\* that changes nothing.
LoadedModel == learn(learn(EmptyModel, Doc("expense", "food")), Doc("income", "Food"))

DiskModels == {learn(EmptyModel, Doc("expense", "food")), LoadedModel}

DiskFiles == {NoFile, EmptyFile, MalformedFile} \cup {toJson(m) : m \in DiskModels}

VARIABLES
    saldoAmt,     \* Saldo collection: id -> amount
    saldo0,       \* the amounts the Saldos were created with
    txs,          \* Transaction collection: id -> document or NoTx
    nextId,       \* the next fresh transaction id
    categories,   \* Category collection: set of [name, type]
    last,         \* the last handler run and the response it sent
    nOps,         \* handlers run so far
    pc,           \* SpecConc: position of each in-flight handler
    req,          \* SpecConc: request of each in-flight handler
    loc,          \* SpecConc: documents each handler has loaded
    base,         \* SpecConc: the stores when the two handlers were started
    classifier,   \* the live model: the bag of the examples it has learned
    isModelReady,
    lastTrainingDate,
    modelFile,    \* content of MODEL_PATH
    backupFile,   \* content of BACKUP_MODEL_PATH
    disk0,        \* the two files as the process found them when it started
    run           \* SpecTrain: each request's position in trainClassifier / predictCategory

ModelVars == <<classifier, isModelReady, lastTrainingDate, modelFile, backupFile, disk0, run>>

vars == <<saldoAmt, saldo0, txs, nextId, categories, last, nOps, pc, req, loc, base,
          ModelVars>>

\* ------------------------------------------------------------- stores
DB == [saldo |-> saldoAmt, txs |-> txs, nextId |-> nextId, cats |-> categories]

\* The characters of the labels and names of the model, for the pattern
\* that `^${predictedCategoryName}$` makes of a label.
Chars(name) ==
    CASE name = "Food" -> <<"F", "o", "o", "d">>
      [] name = "food" -> <<"f", "o", "o", "d">>
      [] name = "f.od" -> <<"f", ".", "o", "d">>
      [] name = "fo(d" -> <<"f", "o", "(", "d">>
      [] OTHER         -> <<name>>

LowerChar(c) == IF c = "F" THEN "f" ELSE c

\* new RegExp(...) throws a SyntaxError on an unterminated group
ValidPattern(label) == \A i \in DOMAIN Chars(label) : Chars(label)[i] # "("

\* /^label$/i.test(name): a character of the label stands for itself, whatever
\* its case, except the dot, which stands for any character
test(label, name) ==
    LET pattern == Chars(label)
        subject == Chars(name)
    IN /\ Len(pattern) = Len(subject)
       /\ \A i \in DOMAIN pattern :
             \/ pattern[i] = "."
             \/ LowerChar(pattern[i]) = LowerChar(subject[i])

\* Category.findOne({name: /^label$/i, type}) then Category.create on a miss
\* The lookup with the type condition left out.
CategoryMatchAnyType(cats, label, type) ==
    {c \in cats : test(label, c.name)}

CategoryMatch(cats, label, type) ==
    {c \in cats : test(label, c.name) /\ c.type = type}

ResolveCats(cats, label, type) ==
    IF CategoryMatch(cats, label, type) # {}
    THEN cats
    ELSE cats \cup {[name |-> Lower(label), type |-> type]}

ResolvedName(cats, label, type) ==
    IF CategoryMatch(cats, label, type) # {}
    THEN (CHOOSE c \in CategoryMatch(cats, label, type) : TRUE).name
    ELSE Lower(label)

\* POST /models: newAmount
NewAmount(cur, amount, type) ==
    IF type = "income" THEN cur + amount ELSE cur - amount

\* The balance check with the type test slipped to the other branch.
InsufficientWrongType(newAmount, type) == newAmount < 0 /\ type = "income"

\* POST /models: the balance check
Insufficient(newAmount, type) == newAmount < 0 /\ type = "expense"

\* POST "": saldo.amount += / -= amount
ApplyPlain(cur, amount, type) ==
    IF type = "income" THEN cur + amount
    ELSE IF type = "expense" THEN cur - amount
    ELSE cur

\* The revert that gives back incomes only.
RevertIncomeOnly(cur, tx) ==
    IF tx.type = "income" THEN cur - tx.amount ELSE cur

\* PUT /:id and DELETE /:id: revert the stored transaction's effect
Revert(cur, tx) ==
    IF tx.type = "income" THEN cur - tx.amount
    ELSE IF tx.type = "expense" THEN cur + tx.amount
    ELSE cur

\* PUT /:id: apply req.body.type / req.body.amount to a loaded Saldo document.
\* With type given and amount omitted the sum is NaN (number + undefined),
\* which the Number path of the Saldo schema refuses to cast: nan marks that
\* document as one whose save() rejects.  With type omitted neither branch
\* runs and the document keeps the amount it had.
ApplyNew(cur, patch) ==
    IF patch.type = "income"
    THEN [nan |-> ~patch.hasAmount,
          amount |-> IF patch.hasAmount THEN cur + patch.amount ELSE cur]
    ELSE IF patch.type = "expense"
    THEN [nan |-> ~patch.hasAmount,
          amount |-> IF patch.hasAmount THEN cur - patch.amount ELSE cur]
    ELSE [nan |-> FALSE, amount |-> cur]

\* PUT /:id: does req.body name another Saldo than the transaction's
SaldoChanged(tx, patch) == patch.saldo # Omitted /\ patch.saldo # tx.saldo

\* Transaction.findByIdAndUpdate(id, req.body): the fields present overwrite
Patched(tx, patch) ==
    [saldo    |-> IF patch.saldo # Omitted THEN patch.saldo ELSE tx.saldo,
     amount   |-> IF patch.hasAmount THEN patch.amount ELSE tx.amount,
     type     |-> IF patch.type # Omitted THEN patch.type ELSE tx.type,
     category |-> tx.category]

Out(db, result) == [db |-> db, result |-> result]

\* ------------------------------------------------------------- handlers
\* Each handler is a function from the stores, the request and the failing
\* write to the stores it leaves and the response it sends.

\* POST /models: create a transaction with a predicted category
CreateModelsH(db, s, amount, type, label, fault) ==
    IF s \notin SaldoIds THEN Out(db, "SaldoNotFound")
    ELSE IF ~ValidPattern(label) THEN Out(db, "PatternError")
    ELSE
      LET db1 == [db EXCEPT !.cats = ResolveCats(db.cats, label, type)]
          newAmount == NewAmount(db.saldo[s], amount, type)
          db2 == [db1 EXCEPT !.saldo[s] = newAmount]
          doc == [saldo |-> s, amount |-> amount, type |-> type,
                  category |-> ResolvedName(db.cats, label, type)]
          db3 == [db2 EXCEPT !.txs[db.nextId] = doc, !.nextId = db.nextId + 1]
      IN  IF Insufficient(newAmount, type) THEN Out(db1, "InsufficientBalance")
          ELSE IF fault = "saldoSave" THEN Out(db1, "WriteError")
          ELSE IF fault = "txWrite" THEN Out(db2, "WriteError")
          ELSE Out(db3, "ok")

\* POST "": create a transaction with the category the caller names
CreatePlainH(db, s, amount, type, category, fault) ==
    IF s \notin SaldoIds THEN Out(db, "SaldoNotFound")
    ELSE
      LET db1 == [db EXCEPT !.saldo[s] = ApplyPlain(db.saldo[s], amount, type)]
          doc == [saldo |-> s, amount |-> amount, type |-> type, category |-> category]
          db2 == [db1 EXCEPT !.txs[db.nextId] = doc, !.nextId = db.nextId + 1]
      IN  IF fault = "saldoSave" THEN Out(db, "WriteError")
          ELSE IF fault = "txWrite" THEN Out(db1, "WriteError")
          ELSE Out(db2, "ok")

\* PUT /:id: revert the old effect, apply the new one, update the document.
\* No route of this model deletes a Saldo, so the Saldo of a stored transaction
\* is always found ("Original saldo not found" is not reached).
UpdateH(db, id, patch, fault) ==
    LET tx == db.txs[id] IN
    IF tx = NoTx THEN Out(db, "TransactionNotFound")
    ELSE
      LET reverted == Revert(db.saldo[tx.saldo], tx) IN
      IF SaldoChanged(tx, patch)
      THEN
        \* only newSaldo is saved: the reverted original document is dropped
        IF patch.saldo \notin SaldoIds THEN Out(db, "NewSaldoNotFound")
        ELSE
          LET n   == ApplyNew(db.saldo[patch.saldo], patch)
              db1 == [db EXCEPT !.saldo[patch.saldo] = n.amount]
              db2 == [db1 EXCEPT !.txs[id] = Patched(tx, patch)]
          IN  IF n.nan \/ fault = "saldoSave" THEN Out(db, "WriteError")
              ELSE IF fault = "txWrite" THEN Out(db1, "WriteError")
              ELSE Out(db2, "ok")
      ELSE
        LET n   == ApplyNew(reverted, patch)
            db1 == [db EXCEPT !.saldo[tx.saldo] = n.amount]
            db2 == [db1 EXCEPT !.txs[id] = Patched(tx, patch)]
        IN  IF n.nan \/ fault = "saldoSave" THEN Out(db, "WriteError")
            ELSE IF fault = "txWrite" THEN Out(db1, "WriteError")
            ELSE Out(db2, "ok")

\* The delete that answers success when it finds no transaction.
DeleteHMissingOk(db, id, fault) ==
    LET tx == db.txs[id] IN
    IF tx = NoTx THEN Out(db, "ok")
    ELSE
      LET db1 == [db EXCEPT !.saldo[tx.saldo] = Revert(db.saldo[tx.saldo], tx)]
          db2 == [db1 EXCEPT !.txs[id] = NoTx]
      IN  IF fault = "saldoSave" THEN Out(db, "WriteError")
          ELSE IF fault = "txWrite" THEN Out(db1, "WriteError")
          ELSE Out(db2, "ok")

\* DELETE /:id: revert the effect, delete the document
DeleteH(db, id, fault) ==
    LET tx == db.txs[id] IN
    IF tx = NoTx THEN Out(db, "TransactionNotFound")
    ELSE
      LET db1 == [db EXCEPT !.saldo[tx.saldo] = Revert(db.saldo[tx.saldo], tx)]
          db2 == [db1 EXCEPT !.txs[id] = NoTx]
      IN  IF fault = "saldoSave" THEN Out(db, "WriteError")
          ELSE IF fault = "txWrite" THEN Out(db1, "WriteError")
          ELSE Out(db2, "ok")

\* ------------------------------------------------------------- state machine
NoReq == [op |-> "none", result |-> "none"]

Procs == {1, 2}

NoPatch == [saldo |-> Omitted, hasAmount |-> FALSE, amount |-> 1, type |-> Omitted]

\* A request in flight, and the documents its handler holds between awaits.
IdleReq == [op |-> "none", id |-> 0, saldo |-> "none", amount |-> 0, type |-> "none",
            label |-> "none", category |-> "none", patch |-> NoPatch]

IdleLoc == [tx |-> NoTx, amt |-> 0, nan |-> FALSE, dirty |-> FALSE,
            category |-> "none", result |-> "none"]

Init ==
    /\ saldoAmt = [s \in SaldoIds |-> MaxInit]
    /\ saldo0 = saldoAmt
    /\ txs = [i \in TxIds |-> NoTx]
    /\ nextId = 1
    /\ categories = {}
    /\ last = NoReq
    /\ nOps = 0
    /\ pc = [p \in Procs |-> "idle"]
    /\ req = [p \in Procs |-> IdleReq]
    /\ loc = [p \in Procs |-> IdleLoc]
    /\ base = DB
    /\ classifier = LoadedModel
    /\ isModelReady = TRUE
    /\ lastTrainingDate = NoDate
    /\ modelFile = toJson(classifier)
    /\ backupFile = NoFile
    /\ disk0 = [primary |-> modelFile, backup |-> backupFile]
    /\ run = [p \in Procs |-> IdleRun]

Commit(out) ==
    /\ saldoAmt' = out.db.saldo
    /\ txs' = out.db.txs
    /\ nextId' = out.db.nextId
    /\ categories' = out.db.cats

SeqFrame == UNCHANGED <<saldo0, pc, req, loc, base, ModelVars>>

CreateModels(s, amount, type, label, fault) ==
    /\ nOps < MaxOps
    /\ nextId <= MaxTx
    /\ LET out == CreateModelsH(DB, s, amount, type, label, fault) IN
       /\ Commit(out)
       /\ last' = [op |-> "createModels", result |-> out.result]
    /\ nOps' = nOps + 1
    /\ SeqFrame

CreatePlain(s, amount, type, category, fault) ==
    /\ nOps < MaxOps
    /\ nextId <= MaxTx
    /\ LET out == CreatePlainH(DB, s, amount, type, category, fault) IN
       /\ Commit(out)
       /\ last' = [op |-> "createPlain", result |-> out.result]
    /\ nOps' = nOps + 1
    /\ SeqFrame

Update(id, patch, fault) ==
    /\ nOps < MaxOps
    /\ LET out == UpdateH(DB, id, patch, fault) IN
       /\ Commit(out)
       /\ last' = [op |-> "update", result |-> out.result]
    /\ nOps' = nOps + 1
    /\ SeqFrame

Delete(id, fault) ==
    /\ nOps < MaxOps
    /\ LET out == DeleteH(DB, id, fault) IN
       /\ Commit(out)
       /\ last' = [op |-> "delete", result |-> out.result]
    /\ nOps' = nOps + 1
    /\ SeqFrame

\* The guards of the handlers' bounds lead each disjunct, so that a state past
\* the bounds enumerates no request.
CanRun    == nOps < MaxOps
CanCreate == nOps < MaxOps /\ nextId <= MaxTx

Next ==
    \/ CanCreate /\ \E s \in SomeSaldo, a \in Amounts, t \in Types, l \in Labels :
          CreateModels(s, a, t, l, "none")
    \/ CanCreate /\ \E s \in SomeSaldo, a \in Amounts, t \in Types, c \in CatNames :
          CreatePlain(s, a, t, c, "none")
    \/ CanRun /\ \E id \in TxIds, patch \in Patches : Update(id, patch, "none")
    \/ CanRun /\ \E id \in TxIds : Delete(id, "none")

Spec == Init /\ [][Next]_vars

\* POST /models and DELETE /:id with labels that read as patterns
NextPattern ==
    \/ CanCreate /\ \E s \in SaldoIds, t \in Types, l \in PatternLabels :
          CreateModels(s, 1, t, l, "none")
    \/ CanRun /\ \E id \in TxIds : Delete(id, "none")

SpecPattern == Init /\ [][NextPattern]_vars

NextFault ==
    \/ CanCreate /\ \E s \in SomeSaldo, a \in Amounts, t \in Types, l \in Labels,
          f \in Faults : CreateModels(s, a, t, l, f)
    \/ CanCreate /\ \E s \in SomeSaldo, a \in Amounts, t \in Types, c \in CatNames,
          f \in Faults : CreatePlain(s, a, t, c, f)
    \/ CanRun /\ \E id \in TxIds, patch \in Patches, f \in Faults : Update(id, patch, f)
    \/ CanRun /\ \E id \in TxIds, f \in Faults : Delete(id, f)

SpecFault == Init /\ [][NextFault]_vars

\* ------------------------------------------------------------- interleaved handlers
\* SpecConc: after at most MaxOps - 2 handlers run alone, two requests are
\* started together and their handlers advance one await at a time.

\* The patches the two concurrent requests draw from: type and amount given.
ConcPatches == {p \in Patches : p.saldo # MissingSaldo /\ p.hasAmount /\ p.type # Omitted}

ConcReqs ==
    {[IdleReq EXCEPT !.op = "createModels", !.saldo = s, !.amount = a, !.type = t,
                     !.label = "Food"] : s \in SaldoIds, a \in Amounts, t \in Types}
    \cup
    {[IdleReq EXCEPT !.op = "createPlain", !.saldo = s, !.amount = a, !.type = t,
                     !.category = "food"] : s \in SomeSaldo, a \in Amounts, t \in Types}
    \cup
    {[IdleReq EXCEPT !.op = "update", !.id = i, !.patch = q] :
        i \in TxIds, q \in ConcPatches}
    \cup
    {[IdleReq EXCEPT !.op = "delete", !.id = i] : i \in TxIds}

IsCreate(r) == r.op \in {"createModels", "createPlain"}

FirstPc(r) ==
    CASE r.op = "createModels" -> "cm_findSaldo"
      [] r.op = "createPlain"  -> "cp_findSaldo"
      [] r.op = "update"       -> "up_findTx"
      [] r.op = "delete"       -> "de_findTx"

\* The handler of request r run alone on the stores db.
RunAlone(db, r) ==
    CASE r.op = "createModels" ->
           CreateModelsH(db, r.saldo, r.amount, r.type, r.label, "none").db
      [] r.op = "createPlain" ->
           CreatePlainH(db, r.saldo, r.amount, r.type, r.category, "none").db
      [] r.op = "update" -> UpdateH(db, r.id, r.patch, "none").db
      [] r.op = "delete" -> DeleteH(db, r.id, "none").db

AllIdle == \A p \in Procs : pc[p] = "idle"
AllDone == \A p \in Procs : pc[p] = "done"

ConcFrame == UNCHANGED <<saldo0, last, nOps, req, base, ModelVars>>

StartPair(r1, r2) ==
    /\ AllIdle
    /\ nOps + 2 <= MaxOps
    /\ nextId + Cardinality({p \in Procs : IsCreate(<<r1, r2>>[p])}) <= MaxTx + 1
    /\ req' = [p \in Procs |-> <<r1, r2>>[p]]
    /\ pc' = [p \in Procs |-> FirstPc(<<r1, r2>>[p])]
    /\ loc' = [p \in Procs |-> IdleLoc]
    /\ base' = DB
    /\ nOps' = nOps + 2
    /\ UNCHANGED <<saldoAmt, saldo0, txs, nextId, categories, last, ModelVars>>

Goto(p, where) == pc' = [pc EXCEPT ![p] = where]
Respond(p, result) ==
    /\ pc' = [pc EXCEPT ![p] = "done"]
    /\ loc' = [loc EXCEPT ![p].result = result]

\* POST /models ----------------------------------------------------------
CmFindSaldo(p) ==
    /\ pc[p] = "cm_findSaldo"
    /\ IF req[p].saldo \notin SaldoIds
       THEN Respond(p, "SaldoNotFound")
       ELSE /\ loc' = [loc EXCEPT ![p].amt = saldoAmt[req[p].saldo]]
            /\ Goto(p, "cm_findCategory")
    /\ UNCHANGED <<saldoAmt, txs, nextId, categories>>
    /\ ConcFrame

\* predictCategory, then Category.findOne
CmFindCategory(p) ==
    /\ pc[p] = "cm_findCategory"
    /\ loc' = [loc EXCEPT ![p].category =
                  ResolvedName(categories, req[p].label, req[p].type)]
    /\ IF CategoryMatch(categories, req[p].label, req[p].type) # {}
       THEN Goto(p, "cm_saveSaldo")
       ELSE Goto(p, "cm_createCategory")
    /\ UNCHANGED <<saldoAmt, txs, nextId, categories>>
    /\ ConcFrame

CmCreateCategory(p) ==
    /\ pc[p] = "cm_createCategory"
    /\ categories' = categories \cup {[name |-> Lower(req[p].label), type |-> req[p].type]}
    /\ Goto(p, "cm_saveSaldo")
    /\ UNCHANGED <<saldoAmt, txs, nextId, loc>>
    /\ ConcFrame

\* the balance check, then saldo.save()
CmSaveSaldo(p) ==
    /\ pc[p] = "cm_saveSaldo"
    /\ LET newAmount == NewAmount(loc[p].amt, req[p].amount, req[p].type) IN
       IF Insufficient(newAmount, req[p].type)
       THEN /\ Respond(p, "InsufficientBalance")
            /\ UNCHANGED saldoAmt
       ELSE /\ saldoAmt' = [saldoAmt EXCEPT ![req[p].saldo] = newAmount]
            /\ Goto(p, "cm_createTx")
            /\ UNCHANGED loc
    /\ UNCHANGED <<txs, nextId, categories>>
    /\ ConcFrame

CmCreateTx(p) ==
    /\ pc[p] = "cm_createTx"
    /\ txs' = [txs EXCEPT ![nextId] =
                  [saldo |-> req[p].saldo, amount |-> req[p].amount,
                   type |-> req[p].type, category |-> loc[p].category]]
    /\ nextId' = nextId + 1
    /\ Respond(p, "ok")
    /\ UNCHANGED <<saldoAmt, categories>>
    /\ ConcFrame

\* POST "" ---------------------------------------------------------------
CpFindSaldo(p) ==
    /\ pc[p] = "cp_findSaldo"
    /\ IF req[p].saldo \notin SaldoIds
       THEN Respond(p, "SaldoNotFound")
       ELSE /\ loc' = [loc EXCEPT ![p].amt = saldoAmt[req[p].saldo]]
            /\ Goto(p, "cp_saveSaldo")
    /\ UNCHANGED <<saldoAmt, txs, nextId, categories>>
    /\ ConcFrame

CpSaveSaldo(p) ==
    /\ pc[p] = "cp_saveSaldo"
    /\ saldoAmt' = [saldoAmt EXCEPT ![req[p].saldo] =
                       ApplyPlain(loc[p].amt, req[p].amount, req[p].type)]
    /\ Goto(p, "cp_createTx")
    /\ UNCHANGED <<txs, nextId, categories, loc>>
    /\ ConcFrame

CpCreateTx(p) ==
    /\ pc[p] = "cp_createTx"
    /\ txs' = [txs EXCEPT ![nextId] =
                  [saldo |-> req[p].saldo, amount |-> req[p].amount,
                   type |-> req[p].type, category |-> req[p].category]]
    /\ nextId' = nextId + 1
    /\ Respond(p, "ok")
    /\ UNCHANGED <<saldoAmt, categories>>
    /\ ConcFrame

\* PUT /:id --------------------------------------------------------------
UpFindTx(p) ==
    /\ pc[p] = "up_findTx"
    /\ IF txs[req[p].id] = NoTx
       THEN Respond(p, "TransactionNotFound")
       ELSE /\ loc' = [loc EXCEPT ![p].tx = txs[req[p].id]]
            /\ Goto(p, "up_findSaldo")
    /\ UNCHANGED <<saldoAmt, txs, nextId, categories>>
    /\ ConcFrame

\* Saldo.findById of the original Saldo; the revert and, when the Saldo is
\* kept, the new effect are applied to the loaded document
UpFindSaldo(p) ==
    /\ pc[p] = "up_findSaldo"
    /\ LET tx == loc[p].tx
           reverted == Revert(saldoAmt[tx.saldo], tx)
           n == ApplyNew(reverted, req[p].patch)
       IN  IF SaldoChanged(tx, req[p].patch)
           THEN /\ loc' = [loc EXCEPT ![p].amt = reverted]
                /\ Goto(p, "up_findNew")
           ELSE /\ loc' = [loc EXCEPT ![p].amt = n.amount, ![p].nan = n.nan,
                                      ![p].dirty = TRUE]
                /\ Goto(p, "up_saveSaldo")
    /\ UNCHANGED <<saldoAmt, txs, nextId, categories>>
    /\ ConcFrame

UpFindNew(p) ==
    /\ pc[p] = "up_findNew"
    /\ IF req[p].patch.saldo \notin SaldoIds
       THEN Respond(p, "NewSaldoNotFound")
       ELSE LET n == ApplyNew(saldoAmt[req[p].patch.saldo], req[p].patch) IN
            /\ loc' = [loc EXCEPT ![p].amt = n.amount, ![p].nan = n.nan,
                                  ![p].dirty = (req[p].patch.type # Omitted)]
            /\ Goto(p, "up_saveNew")
    /\ UNCHANGED <<saldoAmt, txs, nextId, categories>>
    /\ ConcFrame

\* newSaldo.save(): an unmodified document writes nothing
UpSaveNew(p) ==
    /\ pc[p] = "up_saveNew"
    /\ IF loc[p].nan
       THEN /\ Respond(p, "WriteError")
            /\ UNCHANGED saldoAmt
       ELSE /\ saldoAmt' = IF loc[p].dirty
                           THEN [saldoAmt EXCEPT ![req[p].patch.saldo] = loc[p].amt]
                           ELSE saldoAmt
            /\ Goto(p, "up_updateTx")
            /\ UNCHANGED loc
    /\ UNCHANGED <<txs, nextId, categories>>
    /\ ConcFrame

UpSaveSaldo(p) ==
    /\ pc[p] = "up_saveSaldo"
    /\ IF loc[p].nan
       THEN /\ Respond(p, "WriteError")
            /\ UNCHANGED saldoAmt
       ELSE /\ saldoAmt' = [saldoAmt EXCEPT ![loc[p].tx.saldo] = loc[p].amt]
            /\ Goto(p, "up_updateTx")
            /\ UNCHANGED loc
    /\ UNCHANGED <<txs, nextId, categories>>
    /\ ConcFrame

\* Transaction.findByIdAndUpdate: no document, no write
UpUpdateTx(p) ==
    /\ pc[p] = "up_updateTx"
    /\ txs' = IF txs[req[p].id] = NoTx THEN txs
              ELSE [txs EXCEPT ![req[p].id] = Patched(txs[req[p].id], req[p].patch)]
    /\ Respond(p, "ok")
    /\ UNCHANGED <<saldoAmt, nextId, categories>>
    /\ ConcFrame

\* DELETE /:id -----------------------------------------------------------
DeFindTx(p) ==
    /\ pc[p] = "de_findTx"
    /\ IF txs[req[p].id] = NoTx
       THEN Respond(p, "TransactionNotFound")
       ELSE /\ loc' = [loc EXCEPT ![p].tx = txs[req[p].id]]
            /\ Goto(p, "de_findSaldo")
    /\ UNCHANGED <<saldoAmt, txs, nextId, categories>>
    /\ ConcFrame

DeFindSaldo(p) ==
    /\ pc[p] = "de_findSaldo"
    /\ loc' = [loc EXCEPT ![p].amt = Revert(saldoAmt[loc[p].tx.saldo], loc[p].tx)]
    /\ Goto(p, "de_saveSaldo")
    /\ UNCHANGED <<saldoAmt, txs, nextId, categories>>
    /\ ConcFrame

DeSaveSaldo(p) ==
    /\ pc[p] = "de_saveSaldo"
    /\ saldoAmt' = [saldoAmt EXCEPT ![loc[p].tx.saldo] = loc[p].amt]
    /\ Goto(p, "de_deleteTx")
    /\ UNCHANGED <<txs, nextId, categories, loc>>
    /\ ConcFrame

DeDeleteTx(p) ==
    /\ pc[p] = "de_deleteTx"
    /\ txs' = [txs EXCEPT ![req[p].id] = NoTx]
    /\ Respond(p, "ok")
    /\ UNCHANGED <<saldoAmt, nextId, categories>>
    /\ ConcFrame

\* A handler run alone before the two concurrent requests arrive.
Alone ==
    /\ AllIdle
    /\ nOps + 2 < MaxOps
    /\ \E s \in SaldoIds, a \in Amounts, t \in Types : CreateModels(s, a, t, "food", "none")

NextConc ==
    \/ Alone
    \/ AllIdle /\ \E r1 \in ConcReqs, r2 \in ConcReqs : StartPair(r1, r2)
    \/ \E p \in Procs :
          \/ CmFindSaldo(p) \/ CmFindCategory(p) \/ CmCreateCategory(p)
          \/ CmSaveSaldo(p) \/ CmCreateTx(p)
          \/ CpFindSaldo(p) \/ CpSaveSaldo(p) \/ CpCreateTx(p)
          \/ UpFindTx(p) \/ UpFindSaldo(p) \/ UpFindNew(p) \/ UpSaveNew(p)
          \/ UpSaveSaldo(p) \/ UpUpdateTx(p)
          \/ DeFindTx(p) \/ DeFindSaldo(p) \/ DeSaveSaldo(p) \/ DeDeleteTx(p)

SpecConc == Init /\ [][NextConc]_vars

\* ------------------------------------------------------------- ledger claims
\* The signed effect of a transaction document on its Saldo.
Effect(tx) ==
    IF tx.type = "income" THEN tx.amount
    ELSE IF tx.type = "expense" THEN 0 - tx.amount
    ELSE 0

RECURSIVE SignedSum(_, _)
SignedSum(s, n) ==
    IF n = 0 THEN 0
    ELSE SignedSum(s, n - 1) + (IF txs[n].saldo = s THEN Effect(txs[n]) ELSE 0)

Stored(id) == txs[id] # NoTx

\* C1: after any sequence of committed create / update / delete handlers run
\* one at a time, every Saldo's amount is its initial amount plus the signed
\* effects of the transactions now stored on it.
C1_BalanceIsSumOfEffects ==
    \A s \in SaldoIds : saldoAmt[s] = saldo0[s] + SignedSum(s, MaxTx)

\* C2: a committed create (either route) or update whose resulting type is
\* expense leaves the Saldo that received the expense with amount >= 0.
C2_ExpenseStep ==
    /\ last'.op = "createModels" =>
         \A s \in SaldoIds, a \in Amounts, l \in Labels :
            (CreateModels(s, a, "expense", l, "none") /\ last'.result = "ok")
               => saldoAmt'[s] >= 0
    /\ last'.op = "createPlain" =>
         \A s \in SaldoIds, a \in Amounts, c \in CatNames :
            (CreatePlain(s, a, "expense", c, "none") /\ last'.result = "ok")
               => saldoAmt'[s] >= 0
    /\ last'.op = "update" =>
         \A id \in TxIds, patch \in Patches :
            (Update(id, patch, "none") /\ last'.result = "ok" /\ txs'[id].type = "expense")
               => saldoAmt'[txs'[id].saldo] >= 0

C2_ExpenseNeverNegative == [][C2_ExpenseStep]_vars

\* C3: POST /models with type expense and an amount above the Saldo's amount
\* answers InsufficientBalance and leaves the Saldo amounts and the stored
\* transactions as they were.
C3_RejectStep ==
    last'.op = "createModels" =>
       \A s \in SaldoIds, a \in Amounts, l \in Labels :
          (CreateModels(s, a, "expense", l, "none") /\ a > saldoAmt[s])
             => /\ last'.result = "InsufficientBalance"
                /\ saldoAmt' = saldoAmt
                /\ txs' = txs
                /\ nextId' = nextId

DeleteThenCreate(db, id, patch) ==
    LET tx  == db.txs[id]
        new == Patched(tx, patch)
        d   == DeleteH(db, id, "none").db
    IN  CreateModelsH(d, new.saldo, new.amount, new.type, new.category, "none").db

\* C5: the Saldo amounts after update(tx, patch) are those after delete(tx)
\* followed by create of the patched transaction.
C5_UpdateStep ==
    last'.op = "update" =>
       \A id \in TxIds, patch \in Patches :
          (/\ Update(id, patch, "none")
           /\ Stored(id)
           /\ patch.saldo # MissingSaldo
           /\ last'.result = "ok")
             => saldoAmt' = DeleteThenCreate(DB, id, patch).saldo

C5_UpdateIsDeleteThenCreate == [][C5_UpdateStep]_vars

\* C6: an update that moves the transaction to another Saldo leaves the
\* original Saldo with the old effect reverted and the new Saldo with the
\* new effect applied.
C6_MoveStep ==
    last'.op = "update" =>
       \A id \in TxIds, patch \in Patches :
          (/\ Update(id, patch, "none")
           /\ Stored(id)
           /\ SaldoChanged(txs[id], patch)
           /\ last'.result = "ok")
             => /\ saldoAmt'[txs[id].saldo] = saldoAmt[txs[id].saldo] - Effect(txs[id])
                /\ saldoAmt'[patch.saldo] =
                      saldoAmt[patch.saldo] + Effect(Patched(txs[id], patch))

C6_MovedUpdateRevertsAndApplies == [][C6_MoveStep]_vars

\* A patch that changes neither amount, type nor saldo of the transaction.
KeepsBalanceFields(tx, patch) ==
    /\ ~SaldoChanged(tx, patch)
    /\ patch.hasAmount => patch.amount = tx.amount
    /\ patch.type # Omitted => patch.type = tx.type

\* C7: an omitted type or amount keeps its prior value in the balance
\* computation, so a patch that changes neither amount, type nor saldo leaves
\* every Saldo amount unchanged.
C7_DefaultStep ==
    last'.op = "update" =>
       \A id \in TxIds, patch \in Patches :
          (Update(id, patch, "none") /\ Stored(id))
             => /\ ~SaldoChanged(txs[id], patch) =>
                     saldoAmt'[txs[id].saldo] =
                        saldoAmt[txs[id].saldo] - Effect(txs[id])
                           + Effect(Patched(txs[id], patch))
                /\ KeepsBalanceFields(txs[id], patch) => saldoAmt' = saldoAmt

C7_OmittedFieldsKeepPriorValue == [][C7_DefaultStep]_vars

\* The amount the target Saldo would hold after update(tx, patch).
ResultingBalance(tx, patch) ==
    IF SaldoChanged(tx, patch)
    THEN saldoAmt[patch.saldo] + Effect(Patched(tx, patch))
    ELSE saldoAmt[tx.saldo] - Effect(tx) + Effect(Patched(tx, patch))

\* C8: an update whose new type is expense and whose resulting balance on the
\* target Saldo would be negative changes no Saldo and no transaction.
C8_AbortStep ==
    last'.op = "update" =>
       \A id \in TxIds, patch \in Patches :
          (/\ Update(id, patch, "none")
           /\ Stored(id)
           /\ patch.saldo # MissingSaldo
           /\ patch.type = "expense"
           /\ patch.hasAmount
           /\ ResultingBalance(txs[id], patch) < 0)
             => /\ last'.result # "ok"
                /\ saldoAmt' = saldoAmt
                /\ txs' = txs

C8_OverdrawnUpdateAborted == [][C8_AbortStep]_vars

\* C9: a create writes the Saldo amount and the Transaction as one unit: the
\* Saldo amounts change exactly when a transaction is stored, also when the
\* Transaction write fails after the Saldo write.
C9_CreateStep ==
    /\ last'.op = "createModels" =>
         \A s \in SomeSaldo, a \in Amounts, t \in Types, l \in Labels, f \in Faults :
            CreateModels(s, a, t, l, f) => ((saldoAmt' # saldoAmt) <=> (txs' # txs))
    /\ last'.op = "createPlain" =>
         \A s \in SomeSaldo, a \in Amounts, t \in Types, c \in CatNames, f \in Faults :
            CreatePlain(s, a, t, c, f) => ((saldoAmt' # saldoAmt) <=> (txs' # txs))

C9_CreateIsAtomic == [][C9_CreateStep]_vars

\* C10: an update or delete one of whose writes fails leaves none of its
\* other writes in the stores.
C10_FailStep ==
    /\ last'.op = "update" =>
         \A id \in TxIds, patch \in Patches, f \in Faults :
            (Update(id, patch, f) /\ last'.result = "WriteError")
               => (saldoAmt' = saldoAmt /\ txs' = txs)
    /\ last'.op = "delete" =>
         \A id \in TxIds, f \in Faults :
            (Delete(id, f) /\ last'.result = "WriteError")
               => (saldoAmt' = saldoAmt /\ txs' = txs)

C10_UpdateDeleteAtomic == [][C10_FailStep]_vars

\* C4: when two handlers against the same Saldo have run interleaved, the
\* Saldo amounts are those of running the two handlers one after the other in
\* one of the two orders.
SameSaldo(r1, r2) ==
    \E s \in SaldoIds :
       \A r \in {r1, r2} :
          \/ IsCreate(r) /\ r.saldo = s
          \/ r.op \in {"update", "delete"} /\ base.txs[r.id].saldo = s
                /\ r.patch.saldo \in {Omitted, s}

C4_NoLostUpdate ==
    (AllDone /\ SameSaldo(req[1], req[2]))
       => \/ saldoAmt = RunAlone(RunAlone(base, req[1]), req[2]).saldo
          \/ saldoAmt = RunAlone(RunAlone(base, req[2]), req[1]).saldo

\* C11: a call that ends in Saldo not found, Transaction not found, new Saldo
\* not found or insufficient balance has written nothing: the Saldo,
\* Transaction and Category stores are the same after the call as before it.
ValidationErrors ==
    {"SaldoNotFound", "TransactionNotFound", "NewSaldoNotFound", "InsufficientBalance"}

C11_ErrorStep ==
    (nOps' = nOps + 1 /\ last'.result \in ValidationErrors)
       => (saldoAmt' = saldoAmt /\ txs' = txs /\ categories' = categories)

C11_ErrorsBeforeAnyWrite == [][C11_ErrorStep]_vars

\* ------------------------------------------------------------- classifier service
batchSize == 1     \* the page of trainClassifier (100 in the code), scaled to MaxTx

Svc == [classifier |-> classifier, ready |-> isModelReady, date |-> lastTrainingDate,
        primary |-> modelFile, backup |-> backupFile]

SvcOut(sv, result) == [sv |-> sv, result |-> result]

\* classifier = bayes(); isModelReady = false
Fresh(sv) == [sv EXCEPT !.classifier = EmptyModel, !.ready = FALSE]

\* Which file operation of a call throws, and which find() of a training
\* rejects ("find": the first, "findNext": the second).  A writeFileSync that
\* throws leaves the file as it was ("writeOpen") or partly written
\* ("writeTorn").  fs.existsSync never throws.
LoadFaults  == {"none", "readPrimary", "readBackup", "copy", "unlinkPrimary"}
TrainFaults == {"none", "find", "findNext", "copy", "writeOpen", "writeTorn"}
ResetFaults == {"none", "unlinkPrimary", "unlinkBackup"}

\* loadModel, the catch block: the backup, else a fresh classifier and the
\* primary deleted.  unlinkSync is outside every try.
PromoteWithoutCopy(sv) ==
    [sv EXCEPT !.classifier = fromJson(sv.backup), !.ready = TRUE]

\* the backup is loaded and copied over the primary
Promote(sv) ==
    [sv EXCEPT !.classifier = fromJson(sv.backup), !.ready = TRUE, !.primary = sv.backup]

DiscardKeepsPrimary(sv) == Fresh(sv)

\* a fresh classifier, and the primary unlinked
Discard(sv) == [Fresh(sv) EXCEPT !.primary = NoFile]

LoadFallback(sv, fault) ==
    IF existsSync(sv.backup) /\ fault # "readBackup" /\ Parses(sv.backup) /\ fault # "copy"
    THEN SvcOut(Promote(sv), "true")
    ELSE IF ~existsSync(sv.primary) THEN SvcOut(Fresh(sv), "false")
    ELSE IF fault = "unlinkPrimary" THEN SvcOut(Fresh(sv), "exception")
    ELSE SvcOut(Discard(sv), "false")

loadModel(sv, fault) ==
    IF existsSync(sv.primary)
    THEN IF fault # "readPrimary" /\ Parses(sv.primary)
         THEN SvcOut([sv EXCEPT !.classifier = fromJson(sv.primary), !.ready = TRUE], "true")
         ELSE LoadFallback(sv, fault)
    ELSE SvcOut(Fresh(sv), "false")

TornFile(f, fault) == IF fault = "writeTorn" THEN MalformedFile ELSE f

BackupSkipped(sv) == sv

\* the primary, when there is one, is copied to the backup
Backup(sv) == IF existsSync(sv.primary) THEN [sv EXCEPT !.backup = sv.primary] ELSE sv

saveModel(sv, fault) ==
    LET copied == Backup(sv) IN
    IF existsSync(sv.primary) /\ fault = "copy" THEN SvcOut(sv, FALSE)
    ELSE IF fault \in {"writeOpen", "writeTorn"}
         THEN SvcOut([copied EXCEPT !.primary = TornFile(sv.primary, fault)], FALSE)
    ELSE SvcOut([copied EXCEPT !.primary = toJson(sv.classifier)], TRUE)

\* Transaction.find().skip(skip).limit(limit): the stored documents in id order
RECURSIVE StoredUpTo(_, _)
StoredUpTo(t, n) ==
    IF n = 0 THEN <<>>
    ELSE IF t[n] # NoTx THEN Append(StoredUpTo(t, n - 1), t[n])
    ELSE StoredUpTo(t, n - 1)

\* Transaction.find(): every stored document
StoredDocs(t) == StoredUpTo(t, Cardinality(DOMAIN t))

\* The query without its skip().
findFromStart(t, skip, limit) ==
    LET all == StoredDocs(t)
        to  == IF limit < Len(all) THEN limit ELSE Len(all)
    IN SubSeq(all, 1, to)

find(t, skip, limit) ==
    LET all == StoredDocs(t)
        to  == IF skip + limit < Len(all) THEN skip + limit ELSE Len(all)
    IN SubSeq(all, skip + 1, to)

RECURSIVE LearnAll(_, _)
LearnAll(model, page) ==
    IF page = <<>> THEN model
    ELSE LearnAll(learn(model, Head(page)), Tail(page))

\* The while loop of trainClassifier; the find() at offset failSkip rejects.
RECURSIVE TrainPages(_, _, _, _, _)
TrainPages(model, t, skip, trainedCount, failSkip) ==
    IF skip = failSkip
    THEN [model |-> model, trainedCount |-> trainedCount, threw |-> TRUE]
    ELSE LET page == find(t, skip, batchSize) IN
         IF Len(page) = 0
         THEN [model |-> model, trainedCount |-> trainedCount, threw |-> FALSE]
         ELSE TrainPages(LearnAll(model, page), t, skip + batchSize,
                         trainedCount + Len(page), failSkip)

FailSkip(fault) ==
    IF fault = "find" THEN 0 ELSE IF fault = "findNext" THEN batchSize ELSE 0 - 1

AfterLoopAlwaysSaves(learned, trainedCount, fault, now) ==
    LET saved == saveModel(learned, fault) IN
    IF saved.result
    THEN SvcOut([saved.sv EXCEPT !.date = now, !.ready = TRUE], "true")
    ELSE SvcOut(saved.sv, "false")

\* trainClassifier after its loop: if (trainedCount > 0) the model is saved,
\* and if that succeeded the service is ready
AfterLoop(learned, trainedCount, fault, now) ==
    LET saved == saveModel(learned, fault) IN
    IF trainedCount = 0 THEN SvcOut(learned, "false")
    ELSE IF saved.result
         THEN SvcOut([saved.sv EXCEPT !.date = now, !.ready = TRUE], "true")
    ELSE SvcOut(saved.sv, "false")

\* trainClassifier: the examples go into the live classifier
trainClassifier(sv, t, fault, now) ==
    LET loop    == TrainPages(sv.classifier, t, 0, 0, FailSkip(fault))
        learned == [sv EXCEPT !.classifier = loop.model]
    IN IF loop.threw THEN SvcOut([learned EXCEPT !.ready = FALSE], "false")
       ELSE AfterLoop(learned, loop.trainedCount, fault, now)

\* classifier.categorize: the label of the largest P(label) * P(text | label)
\* with add-one smoothing; the text is one token.  Products are compared
\* cross-multiplied.  Among equal scores bayes keeps the label learned first,
\* which the bag does not record: one of them is chosen.
ModelLabels(model) == {e.label : e \in BagToSet(model)}
ModelTexts(model)  == {e.text : e \in BagToSet(model)}

DocCount(model, label) ==
    BagCardinality([e \in {x \in BagToSet(model) : x.label = label} |-> model[e]])

TokenCount(model, text, label) == CopiesIn([text |-> text, label |-> label], model)

Beats(model, text, a, b) ==
    DocCount(model, a) * (TokenCount(model, text, a) + 1)
          * (DocCount(model, b) + Cardinality(ModelTexts(model)))
      > DocCount(model, b) * (TokenCount(model, text, b) + 1)
          * (DocCount(model, a) + Cardinality(ModelTexts(model)))

\* classifier.categorize itself: undefined from a model with no label
bayesCategorize(model, text) ==
    IF ModelLabels(model) = {} THEN "undefined"
    ELSE CHOOSE a \in ModelLabels(model) :
            \A b \in ModelLabels(model) : ~Beats(model, text, b, a)

\* prediction || "uncategorized"
categorize(model, text) ==
    LET prediction == bayesCategorize(model, text) IN
    IF prediction = "undefined" THEN "uncategorized" ELSE prediction

\* ensureModelReady (predictCategory calls it only when not Ready)
ensureModelReady(sv, t, fault, now) ==
    IF sv.ready THEN sv ELSE trainClassifier(sv, t, fault, now).sv

\* predictCategory; whatever is thrown inside is caught and answered with
\* "uncategorized"
\* The prediction without the test of isModelReady.
predictCategoryIgnoresReady(sv, t, type, fault, now) ==
    LET ensured == ensureModelReady(sv, t, fault, now) IN
    SvcOut(ensured, categorize(ensured.classifier, type))

predictCategory(sv, t, type, fault, now) ==
    LET ensured == ensureModelReady(sv, t, fault, now) IN
    IF ensured.ready
    THEN SvcOut(ensured, categorize(ensured.classifier, type))
    ELSE SvcOut(ensured, "uncategorized")

\* POST /reset-model: an unlinkSync that throws ends the handler with 500
resetModel(sv, fault) ==
    LET unlinked == [sv EXCEPT !.primary = NoFile] IN
    IF existsSync(sv.primary) /\ fault = "unlinkPrimary" THEN SvcOut(sv, "500")
    ELSE IF existsSync(sv.backup) /\ fault = "unlinkBackup" THEN SvcOut(unlinked, "500")
    ELSE SvcOut([unlinked EXCEPT !.backup = NoFile, !.classifier = EmptyModel,
                                 !.ready = FALSE, !.date = NoDate], "200")

\* ------------------------------------------------------------- SpecModel
\* The process starts with any files on disk and any documents in the
\* Transaction store; loadModel() runs once, when the module is loaded, and an
\* exception it lets escape ends the process.
StoresOf(n) ==
    {t \in [TxIds -> TrainDocs \cup {NoTx}] : \A i \in TxIds : (t[i] # NoTx) <=> (i <= n)}

InitModel ==
    /\ saldoAmt = [s \in SaldoIds |-> MaxInit]
    /\ saldo0 = saldoAmt
    /\ \E n \in 0..MaxTx : txs \in StoresOf(n) /\ nextId = n + 1
    /\ categories = {}
    /\ last = NoReq
    /\ nOps = 0
    /\ pc = [p \in Procs |-> "idle"]
    /\ req = [p \in Procs |-> IdleReq]
    /\ loc = [p \in Procs |-> IdleLoc]
    /\ base = DB
    /\ classifier = EmptyModel
    /\ isModelReady = FALSE
    /\ lastTrainingDate = NoDate
    /\ modelFile \in DiskFiles
    /\ backupFile \in DiskFiles
    /\ disk0 = [primary |-> modelFile, backup |-> backupFile]
    /\ run = [p \in Procs |-> IdleRun]

SetSvc(sv) ==
    /\ classifier' = sv.classifier
    /\ isModelReady' = sv.ready
    /\ lastTrainingDate' = sv.date
    /\ modelFile' = sv.primary
    /\ backupFile' = sv.backup

ModelFrame ==
    UNCHANGED <<saldoAmt, saldo0, txs, nextId, categories, pc, req, loc, base, disk0, run>>

Booting == last.op = "none"
Up      == ~Booting /\ ~(last.op = "load" /\ last.result = "exception") /\ nOps < MaxOps

Load(fault) ==
    /\ Booting
    /\ LET out == loadModel(Svc, fault) IN
       /\ SetSvc(out.sv)
       /\ last' = [op |-> "load", result |-> out.result]
    /\ nOps' = nOps + 1
    /\ ModelFrame

Train(fault) ==
    /\ Up
    /\ LET out == trainClassifier(Svc, txs, fault, nOps + 1) IN
       /\ SetSvc(out.sv)
       /\ last' = [op |-> "train", result |-> out.result]
    /\ nOps' = nOps + 1
    /\ ModelFrame

Predict(type, fault) ==
    /\ Up
    /\ LET out == predictCategory(Svc, txs, type, fault, nOps + 1) IN
       /\ SetSvc(out.sv)
       /\ last' = [op |-> "predict", result |-> out.result]
    /\ nOps' = nOps + 1
    /\ ModelFrame

Reset(fault) ==
    /\ Up
    /\ LET out == resetModel(Svc, fault) IN
       /\ SetSvc(out.sv)
       /\ last' = [op |-> "reset", result |-> out.result]
    /\ nOps' = nOps + 1
    /\ ModelFrame

NextModel ==
    \/ Booting /\ \E f \in LoadFaults : Load(f)
    \/ Up /\ \E f \in TrainFaults : Train(f)
    \/ Up /\ \E t \in Types, f \in (IF isModelReady THEN {"none"} ELSE TrainFaults) :
          Predict(t, f)
    \/ Up /\ \E f \in ResetFaults : Reset(f)

SpecModel == InitModel /\ [][NextModel]_vars

\* GET /model-status: the data of the response
modelStatus(sv) ==
    [isModelReady     |-> sv.ready,
     lastTrainingDate |-> sv.date,
     modelExists      |-> existsSync(sv.primary),
     backupExists     |-> existsSync(sv.backup),
     totalCategories  |-> IF sv.ready THEN Cardinality(ModelLabels(sv.classifier)) ELSE 0]

Status ==
    /\ Up
    /\ last' = [op |-> "status", result |-> "200"]
    /\ nOps' = nOps + 1
    /\ UNCHANGED <<classifier, isModelReady, lastTrainingDate, modelFile, backupFile>>
    /\ ModelFrame

\* the service with GET /model-status among its requests
NextStatus ==
    \/ Booting /\ \E f \in LoadFaults : Load(f)
    \/ Up /\ \E f \in TrainFaults : Train(f)
    \/ Up /\ \E f \in ResetFaults : Reset(f)
    \/ Status

SpecStatus == InitModel /\ [][NextStatus]_vars

\* ------------------------------------------------------------- SpecTrain
\* After loadModel(), requests to POST /train-model and calls of
\* predictCategory run interleaved: a training yields at every
\* await Transaction.find(), and what follows an await up to the next one is
\* one step.  No file operation fails here.
TrainFrame ==
    UNCHANGED <<saldoAmt, saldo0, txs, nextId, categories, pc, req, loc, base, disk0>>

Idle(p)       == run[p].pc = "idle"
InTraining(p) == run[p].pc = "fetch"

\* trainClassifier up to its first await
Started(op, type) ==
    [op |-> op, pc |-> "fetch", type |-> type, skip |-> 0, trainedCount |-> 0,
     before |-> classifier]

\* POST /train-model
StartTrain(p) ==
    /\ Up /\ Idle(p)
    /\ run' = [run EXCEPT ![p] = Started("train", "none")]
    /\ nOps' = nOps + 1
    /\ UNCHANGED <<classifier, isModelReady, lastTrainingDate, modelFile, backupFile, last>>
    /\ TrainFrame

\* predictCategory when the service is Ready: one categorize call
PredictReady(p, type) ==
    /\ Up /\ Idle(p)
    /\ isModelReady
    /\ last' = [op |-> "predict", result |-> categorize(classifier, type)]
    /\ nOps' = nOps + 1
    /\ UNCHANGED <<classifier, isModelReady, lastTrainingDate, modelFile, backupFile, run>>
    /\ TrainFrame

\* predictCategory when it is not: await ensureModelReady()
PredictLazy(p, type) ==
    /\ Up /\ Idle(p)
    /\ ~isModelReady
    /\ run' = [run EXCEPT ![p] = Started("predict", type)]
    /\ nOps' = nOps + 1
    /\ UNCHANGED <<classifier, isModelReady, lastTrainingDate, modelFile, backupFile, last>>
    /\ TrainFrame

\* a find() resolves with documents: they are learned and the next find() is awaited
LearnPage(p) ==
    /\ InTraining(p)
    /\ LET page == find(txs, run[p].skip, batchSize) IN
       /\ Len(page) > 0
       /\ classifier' = LearnAll(classifier, page)
       /\ run' = [run EXCEPT ![p].skip = @ + batchSize,
                             ![p].trainedCount = @ + Len(page)]
    /\ UNCHANGED <<isModelReady, lastTrainingDate, modelFile, backupFile, last, nOps>>
    /\ TrainFrame

\* a find() resolves with no document: the loop ends, the model is saved
FinishTrain(p) ==
    /\ InTraining(p)
    /\ Len(find(txs, run[p].skip, batchSize)) = 0
    /\ LET out == AfterLoop(Svc, run[p].trainedCount, "none", nOps) IN
       /\ SetSvc(out.sv)
       /\ IF run[p].op = "train"
          THEN /\ last' = [op |-> "train", result |-> out.result]
               /\ run' = [run EXCEPT ![p] = IdleRun]
          ELSE /\ last' = last
               /\ run' = [run EXCEPT ![p].pc = "categorize"]
    /\ UNCHANGED nOps
    /\ TrainFrame

\* predictCategory after await ensureModelReady()
PredictAfter(p) ==
    /\ run[p].pc = "categorize"
    /\ last' = [op |-> "predict",
                result |-> IF isModelReady THEN categorize(classifier, run[p].type)
                           ELSE "uncategorized"]
    /\ run' = [run EXCEPT ![p] = IdleRun]
    /\ UNCHANGED <<classifier, isModelReady, lastTrainingDate, modelFile, backupFile, nOps>>
    /\ TrainFrame

NextTrain ==
    \/ Booting /\ Load("none")
    \/ Up /\ \E p \in Procs : StartTrain(p)
    \/ Up /\ \E p \in Procs, t \in Types : PredictReady(p, t)
    \/ Up /\ \E p \in Procs, t \in Types : PredictLazy(p, t)
    \/ \E p \in Procs : LearnPage(p)
    \/ \E p \in Procs : FinishTrain(p)
    \/ \E p \in Procs : PredictAfter(p)

SpecTrain == InitModel /\ [][NextTrain]_vars

\* POST /reset-model while the training of p awaits a page after its first;
\* no training is started once a reset has been answered
NextReset ==
    \/ Booting /\ Load("none")
    \/ Up /\ last.op # "reset" /\ \E p \in Procs : StartTrain(p)
    \/ \E p \in Procs : LearnPage(p)
    \/ \E p \in Procs : FinishTrain(p)
    \/ Up /\ \E p \in Procs, f \in ResetFaults :
          InTraining(p) /\ run[p].skip > 0 /\ Reset(f)

SpecReset == InitModel /\ [][NextReset]_vars

\* Trainings over a store that nothing modifies.  An awaited find() resolves
\* and the event loop runs what follows it: each training's next step is
\* taken if it stays enabled.
NextPaging ==
    \/ Booting /\ Load("none")
    \/ Up /\ \E p \in Procs : StartTrain(p)
    \/ \E p \in Procs : LearnPage(p)
    \/ \E p \in Procs : FinishTrain(p)

\* the process starts with no model file or with a valid one
InitPaging ==
    /\ InitModel
    /\ modelFile \in {NoFile, toJson(LoadedModel)}
    /\ backupFile = NoFile

SpecPaging ==
    /\ InitPaging
    /\ [][NextPaging]_vars
    /\ \A p \in Procs : WF_vars(LearnPage(p)) /\ WF_vars(FinishTrain(p))

\* ------------------------------------------------------------- classifier claims
\* C12: a prediction that runs while a training is in progress, between two
\* of its page fetches, observes the model as it was when that training began
\* or the model after all pages were learned, never one that has learned
\* only some pages.
AllLearned(model) == LearnAll(model, StoredUpTo(txs, MaxTx))

C12_PredictStep ==
    last'.op = "predict" =>
       \A q \in Procs, t \in Types, p \in Procs :
          (PredictReady(q, t) /\ InTraining(p))
             => classifier \in {run[p].before, AllLearned(run[p].before)}

C12_PredictSeesWholeModel == [][C12_PredictStep]_vars

\* C13: at most one training is in progress at a time.
C13_OneTrainAtATime == Cardinality({p \in Procs : InTraining(p)}) <= 1

\* C14: a training that finds the Transaction store empty returns false and
\* changes nothing: the readiness flag, the last-trained timestamp, the live
\* model and both model files are as before the call.
NoDocs == StoredUpTo(txs, MaxTx) = <<>>

C14_EmptyStep ==
    last'.op = "train" =>
       \A f \in TrainFaults \ {"find"} :
          (Train(f) /\ NoDocs)
             => /\ last'.result = "false"
                /\ UNCHANGED <<classifier, isModelReady, lastTrainingDate,
                               modelFile, backupFile>>

C14_EmptyTrainChangesNothing == [][C14_EmptyStep]_vars

C14_Witness ==
    /\ last = [op |-> "train", result |-> "false"]
    /\ NoDocs
    /\ isModelReady
    /\ existsSync(modelFile)

\* C15: a training that learned at least one example and whose persist fails
\* reports the failure and leaves the service Ready, whether or not it was
\* Ready before.
PersistFails(f) ==
    \/ f \in {"writeOpen", "writeTorn"}
    \/ f = "copy" /\ existsSync(modelFile)

C15_FailStep ==
    last'.op = "train" =>
       \A f \in TrainFaults :
          (Train(f) /\ ~NoDocs /\ PersistFails(f))
             => /\ last'.result = "false"
                /\ isModelReady'
                /\ classifier' = AllLearned(classifier)

C15_ReadyAfterFailedPersist == [][C15_FailStep]_vars

\* C16: loadModel given a primary file that is empty or malformed and a valid
\* backup file returns true, Ready, with the live model decoded from the
\* backup and a primary file whose content is the backup's.
Corrupt(f) == f \in {EmptyFile, MalformedFile}

C16_RestoreStep ==
    last'.op = "load" =>
       \A f \in LoadFaults \ {"readBackup", "copy"} :
          (Load(f) /\ Corrupt(modelFile) /\ Parses(backupFile))
             => /\ last'.result = "true"
                /\ isModelReady'
                /\ classifier' = fromJson(backupFile)
                /\ modelFile' = backupFile
                /\ backupFile' = backupFile

C16_CorruptPrimaryRestored == [][C16_RestoreStep]_vars

C16_Witness ==
    /\ last = [op |-> "load", result |-> "true"]
    /\ Corrupt(disk0.primary)
    /\ Parses(disk0.backup)
    /\ modelFile = disk0.backup
    /\ isModelReady

\* C17: loadModel with no primary file and a valid backup file promotes the
\* backup to primary and ends Ready.
C17_MissingStep ==
    last'.op = "load" =>
       ((Load("none") /\ ~existsSync(modelFile) /\ Parses(backupFile))
           => /\ last'.result = "true"
              /\ isModelReady'
              /\ modelFile' = backupFile)

C17_MissingPrimaryRestored == [][C17_MissingStep]_vars

\* C18: loadModel given a corrupt primary and a backup that is missing or
\* unreadable returns false, not Ready, with an empty live model and no
\* primary file.
C18_DiscardStep ==
    last'.op = "load" =>
       \A f \in LoadFaults \ {"unlinkPrimary"} :
          (Load(f) /\ Corrupt(modelFile) /\ (~Parses(backupFile) \/ f = "readBackup"))
             => /\ last'.result = "false"
                /\ ~isModelReady'
                /\ classifier' = EmptyModel
                /\ modelFile' = NoFile

C18_CorruptPrimaryDiscarded == [][C18_DiscardStep]_vars

C18_Witness ==
    /\ last = [op |-> "load", result |-> "false"]
    /\ Corrupt(disk0.primary)
    /\ ~Parses(disk0.backup)
    /\ modelFile = NoFile
    /\ ~isModelReady

\* C19: loadModel returns true or false whatever the files are and whichever
\* file operation fails; no exception escapes it.
C19_LoadNeverThrows == last.op = "load" => last.result \in {"true", "false"}

\* C20: a saveModel that succeeds leaves the previous primary content in the
\* backup when there was a primary, leaves the backup as it was when there was
\* none, and leaves the encoding of the live model in the primary.
C20_PersistStep ==
    last'.op = "train" =>
       \A f \in TrainFaults :
          (Train(f) /\ last'.result = "true")
             => /\ modelFile' = toJson(classifier')
                /\ fromJson(modelFile') = classifier'
                /\ backupFile' = IF existsSync(modelFile) THEN modelFile ELSE backupFile

C20_PersistKeepsOneBackup == [][C20_PersistStep]_vars

C20_Witness ==
    /\ last = [op |-> "train", result |-> "true"]
    /\ nOps = 2
    /\ Parses(disk0.primary)
    /\ disk0.backup # disk0.primary
    /\ backupFile = disk0.primary
    /\ modelFile # disk0.primary

\* ------------------------------------------------------------- SpecCrash
\* The process may die inside saveModel: in the middle of copyFileSync (the
\* backup is left torn) or of writeFileSync (the primary is left torn).  What
\* is in memory is lost, and the next start runs loadModel() again.  No file
\* operation of loadModel fails; a training may fail in every way but a
\* write that leaves a torn primary behind with the process alive.
TornFiles == {EmptyFile, MalformedFile}

Crash(where, torn) ==
    /\ Up
    /\ StoredUpTo(txs, MaxTx) # <<>>
    /\ IF where = "copy"
       THEN /\ existsSync(modelFile)
            /\ backupFile' = torn
            /\ modelFile' = modelFile
       ELSE /\ backupFile' = Backup(Svc).backup
            /\ modelFile' = torn
    /\ classifier' = EmptyModel
    /\ isModelReady' = FALSE
    /\ lastTrainingDate' = NoDate
    /\ last' = NoReq
    /\ nOps' = nOps + 1
    /\ ModelFrame

NextCrash ==
    \/ Booting /\ Load("none")
    \/ Up /\ \E f \in TrainFaults \ {"writeTorn"} : Train(f)
    \/ Up /\ \E w \in {"copy", "write"}, torn \in TornFiles : Crash(w, torn)

SpecCrash == InitModel /\ [][NextCrash]_vars

\* C21: once a valid model file is on disk, no persist and no crash in the
\* middle of a write leads to a state without a valid primary and without a
\* valid backup.
Recoverable == Parses(modelFile) \/ Parses(backupFile)

C21_CrashStep == Recoverable => Recoverable'

C22_PredictStep ==
    last'.op = "predict" =>
        /\ last'.result \in {"uncategorized"} \cup ModelLabels(classifier')
        /\ ~isModelReady
              => \E f \in TrainFaults :
                    LET out == trainClassifier(Svc, txs, f, nOps + 1) IN
                    /\ classifier' = out.sv.classifier
                    /\ isModelReady' = out.sv.ready
                    /\ modelFile' = out.sv.primary
        /\ isModelReady => UNCHANGED <<classifier, isModelReady, modelFile>>
        /\ ~isModelReady' => last'.result = "uncategorized"
        /\ ModelLabels(classifier') = {} => last'.result = "uncategorized"

C22_PredictNeverRaises == [][C22_PredictStep]_vars

C22_Witness ==
    /\ last = [op |-> "predict", result |-> "uncategorized"]
    /\ ~isModelReady
    /\ classifier # EmptyModel
    /\ ~Parses(modelFile)

\* C23: after POST /reset-model neither model file exists, the live model is
\* empty, the readiness flag is false and the last-trained timestamp is
\* cleared, also when a file deletion fails.
C23_ResetStep ==
    last'.op = "reset" =>
       \A f \in ResetFaults :
          Reset(f)
             => /\ modelFile' = NoFile
                /\ backupFile' = NoFile
                /\ classifier' = EmptyModel
                /\ ~isModelReady'
                /\ lastTrainingDate' = NoDate

C23_ResetClearsAll == [][C23_ResetStep]_vars

\* C25: the readiness flag goes from true to false only in POST /reset-model.
C25_ReadyStep == (isModelReady /\ ~isModelReady') => last'.op = "reset"

C25_ReadyUntilReset == [][C25_ReadyStep]_vars

\* ------------------------------------------------------------- evaluation
MinEvalSamples == 10      \* allTransactions.length < 10
EvalLimit      == 1000    \* .limit(1000)
CvLimit        == 500     \* .limit(500)
DefaultK       == 5       \* req.body.k || 5

limit(docs, n) == SubSeq(docs, 1, IF n < Len(docs) THEN n ELSE Len(docs))

\* Array.prototype.slice(from, to): zero-based, to excluded
slice(docs, from, to) == SubSeq(docs, from + 1, IF to < Len(docs) THEN to ELSE Len(docs))

splitIndexSeventy(n) == (n * 7) \div 10

\* Math.floor(allTransactions.length * 0.8)
splitIndex(n) == (n * 8) \div 10

TooFewOffByOne(docs) == Len(docs) < MinEvalSamples - 1

TooFew(docs) == Len(docs) < MinEvalSamples

TempTrainLive(sv, trainingData) ==
    [sv   |-> [sv EXCEPT !.classifier = LearnAll(sv.classifier, trainingData)],
     temp |-> LearnAll(sv.classifier, trainingData)]

\* const tempClassifier = bayes(); trainingData.forEach(... tempClassifier.learn ...)
TempTrain(sv, trainingData) ==
    [sv |-> sv, temp |-> LearnAll(EmptyModel, trainingData)]

\* testData.forEach(... predictions.push ...)
Predictions(temp, testData) ==
    [i \in 1..Len(testData) |->
        [actualCategory    |-> Example(testData[i]).label,
         predictedCategory |-> bayesCategorize(temp, Example(testData[i]).text)]]

\* predictions.filter(p => p.isCorrect).length
RECURSIVE CountCorrect(_)
CountCorrect(preds) ==
    IF preds = <<>> THEN 0
    ELSE (IF Head(preds).actualCategory = Head(preds).predictedCategory THEN 1 ELSE 0)
         + CountCorrect(Tail(preds))

\* the quotient num / den rounded to the nearest integer
RoundDiv(num, den) == (2 * num + den) \div (2 * den)

\* parseFloat((num / den).toFixed(4)), in ten-thousandths
toFixed4(num, den) == RoundDiv(10000 * num, den)

\* x || 0 of a quotient: NaN (0 / 0) and 0 give 0
OrZero(num, den) == IF den = 0 THEN 0 ELSE toFixed4(num, den)

RECURSIVE Populate(_, _)
Populate(matrix, preds) ==
    IF preds = <<>> THEN matrix
    ELSE Populate([matrix EXCEPT ![Head(preds).actualCategory][Head(preds).predictedCategory]
                                    = @ + 1],
                  Tail(preds))

generateConfusionMatrix(preds) ==
    LET cats == {preds[i].actualCategory : i \in DOMAIN preds}
                   \cup {preds[i].predictedCategory : i \in DOMAIN preds}
    IN Populate([cat \in cats |-> [otherCat \in cats |-> 0]], preds)

RECURSIVE SumCells(_, _, _)
SumCells(matrix, cells, done) ==
    IF cells = done THEN 0
    ELSE LET c == CHOOSE x \in cells \ done : TRUE IN
         matrix[c[1]][c[2]] + SumCells(matrix, cells, done \cup {c})

falsePositivesOfRow(matrix, category) ==
    SumCells(matrix, {<<category, other>> : other \in DOMAIN matrix \ {category}}, {})

falsePositives(matrix, category) ==
    SumCells(matrix, {<<other, category>> : other \in DOMAIN matrix \ {category}}, {})

falseNegatives(matrix, category) ==
    SumCells(matrix, {<<category, other>> : other \in DOMAIN matrix \ {category}}, {})

\* f1Score is computed from the unrounded precision and recall:
\* 2pr / (p + r) = 2TP / (2TP + FP + FN), and NaN when TP = 0
calculateMetrics(matrix) ==
    [category \in DOMAIN matrix |->
        LET tp == matrix[category][category]
            fp == falsePositives(matrix, category)
            fn == falseNegatives(matrix, category)
        IN [precision |-> OrZero(tp, tp + fp),
            recall    |-> OrZero(tp, tp + fn),
            f1Score   |-> IF tp = 0 THEN 0 ELSE toFixed4(2 * tp, 2 * tp + fp + fn),
            support   |-> tp + fn]]

EvalFaults == {"none", "find"}

\* POST /evaluate-model: the new service state and the response
evaluateModel(sv, t, fault) ==
    LET allTransactions == limit(StoredDocs(t), EvalLimit) IN
    IF fault = "find" THEN [sv |-> sv, code |-> "500"]
    ELSE IF TooFew(allTransactions) THEN [sv |-> sv, code |-> "400"]
    ELSE LET n            == Len(allTransactions)
             trainingData == slice(allTransactions, 0, splitIndex(n))
             testData     == slice(allTransactions, splitIndex(n), n)
             trained      == TempTrain(sv, trainingData)
             predictions  == Predictions(trained.temp, testData)
             matrix       == generateConfusionMatrix(predictions)
         IN [sv |-> trained.sv, code |-> "200",
             trainingData     |-> trainingData,
             testData         |-> testData,
             accuracy         |-> toFixed4(CountCorrect(predictions), Len(predictions)),
             totalTestSamples |-> Len(predictions),
             confusionMatrix  |-> matrix,
             metrics          |-> calculateMetrics(matrix),
             predictions      |-> limit(predictions, 20)]

\* req.body.k || 5 (0 stands for a body without k)
FoldCount(k) == IF k = 0 THEN DefaultK ELSE k

\* one pass of the loop body, for the zero-based fold i
Fold(sv, transactions, foldSize, i) ==
    LET testStart    == i * foldSize
        testEnd      == (i + 1) * foldSize
        testData     == slice(transactions, testStart, testEnd)
        trainingData == slice(transactions, 0, testStart)
                           \o slice(transactions, testEnd, Len(transactions))
        trained      == TempTrain(sv, trainingData)
        correct      == CountCorrect(Predictions(trained.temp, testData))
    IN [sv |-> trained.sv,
        result |-> [fold |-> i + 1,
                    accuracy |-> toFixed4(correct, Len(testData)),
                    testSamples |-> Len(testData),
                    testStart |-> testStart, testEnd |-> testEnd,
                    trainingData |-> trainingData]]

\* for (let i = 0; i < k; i++) { ... results.push(...) }
RECURSIVE Folds(_, _, _, _, _)
Folds(sv, transactions, foldSize, i, k) ==
    IF i >= k THEN [sv |-> sv, results |-> <<>>]
    ELSE LET this == Fold(sv, transactions, foldSize, i)
             rest == Folds(this.sv, transactions, foldSize, i + 1, k)
         IN [sv |-> rest.sv, results |-> <<this.result>> \o rest.results]

RECURSIVE SumAccuracy(_)
SumAccuracy(results) ==
    IF results = <<>> THEN 0 ELSE Head(results).accuracy + SumAccuracy(Tail(results))

\* POST /cross-validate: the new service state and the response
crossValidate(sv, t, kBody, fault) ==
    LET k            == FoldCount(kBody)
        transactions == limit(StoredDocs(t), CvLimit)
    IN
    IF fault = "find" THEN [sv |-> sv, code |-> "500"]
    ELSE IF Len(transactions) < k * 2 THEN [sv |-> sv, code |-> "400"]
    ELSE LET foldSize == Len(transactions) \div k
             run_     == Folds(sv, transactions, foldSize, 0, k)
         IN [sv |-> run_.sv, code |-> "200",
             k               |-> k,
             averageAccuracy |-> RoundDiv(SumAccuracy(run_.results), Len(run_.results)),
             folds           |-> run_.results,
             totalSamples    |-> Len(transactions)]

\* ------------------------------------------------------------- SpecEval
\* the request bodies of POST /cross-validate: no k, or k
Ks == {0, 2, 3}

\* any store of up to MaxSample documents; the service as loadModel left it,
\* with or without a model file
InitEval ==
    /\ saldoAmt = [s \in SaldoIds |-> MaxInit]
    /\ saldo0 = saldoAmt
    /\ \E n \in 0..MaxSample : \E docs \in [1..n -> TrainDocs] :
          /\ txs = docs
          /\ nextId = n + 1
    /\ categories = {}
    /\ nOps = 0
    /\ pc = [p \in Procs |-> "idle"]
    /\ req = [p \in Procs |-> IdleReq]
    /\ loc = [p \in Procs |-> IdleLoc]
    /\ base = DB
    /\ \E loaded \in BOOLEAN :
          /\ classifier = IF loaded THEN LoadedModel ELSE EmptyModel
          /\ isModelReady = loaded
          /\ modelFile = IF loaded THEN toJson(LoadedModel) ELSE NoFile
          /\ last = [op |-> "load", result |-> IF loaded THEN "true" ELSE "false"]
    /\ lastTrainingDate = NoDate
    /\ backupFile = NoFile
    /\ disk0 = [primary |-> modelFile, backup |-> backupFile]
    /\ run = [p \in Procs |-> IdleRun]

\* the handlers write nothing, so one request per behaviour shows all they do
Evaluate(fault) ==
    /\ nOps = 0
    /\ SetSvc(evaluateModel(Svc, txs, fault).sv)
    /\ last' = [op |-> "evaluate", result |-> evaluateModel(Svc, txs, fault).code]
    /\ nOps' = nOps + 1
    /\ ModelFrame

CrossValidate(k, fault) ==
    /\ nOps = 0
    /\ SetSvc(crossValidate(Svc, txs, k, fault).sv)
    /\ last' = [op |-> "crossValidate", result |-> crossValidate(Svc, txs, k, fault).code]
    /\ nOps' = nOps + 1
    /\ ModelFrame

NextEval ==
    \/ \E fault \in EvalFaults : Evaluate(fault)
    \/ \E k \in Ks, fault \in EvalFaults : CrossValidate(k, fault)

SpecEval == InitEval /\ [][NextEval]_vars

\* ------------------------------------------------------------- evaluation claims
\* C24: POST /evaluate-model and POST /cross-validate leave the live
\* classifier, the readiness flag, the last training date and both model
\* files as they were (and the store, from which a service that is not ready
\* trains before it predicts), so that predictCategory of any input returns
\* the same label after the call as before it.
C24_EvalStep ==
    last'.op \in {"evaluate", "crossValidate"} =>
        /\ UNCHANGED <<classifier, isModelReady, lastTrainingDate, modelFile, backupFile, txs>>
        /\ isModelReady =>
              \A type \in Types :
                 predictCategory(Svc', txs', type, "none", nOps').result
                    = predictCategory(Svc, txs, type, "none", nOps').result

C24_EvalNeverMutates == [][C24_EvalStep]_vars

C24_Witness ==
    /\ last = [op |-> "crossValidate", result |-> "200"]
    /\ isModelReady
    /\ classifier = LoadedModel
    /\ modelFile = toJson(LoadedModel)

\* C26: POST /evaluate-model that fetches fewer than 10 transactions answers
\* 400 (InsufficientData), trains no model and returns no metrics.
C26_TooFewStep ==
    last'.op = "evaluate" =>
        ((Evaluate("none") /\ Len(StoredDocs(txs)) < 10) =>
            /\ last'.result = "400"
            /\ DOMAIN evaluateModel(Svc, txs, "none") = {"sv", "code"}
            /\ evaluateModel(Svc, txs, "none").sv = Svc)

C26_TooFewIsInsufficient == [][C26_TooFewStep]_vars

C26_Witness ==
    /\ last = [op |-> "evaluate", result |-> "400"]
    /\ Len(StoredDocs(txs)) = 9

\* value is the multiple of 1/10000 nearest to num / den
Nearest(value, num, den) ==
    /\ 2 * (10000 * num - value * den) <= den
    /\ 2 * (value * den - 10000 * num) <= den

\* C27: POST /evaluate-model on n >= 10 fetched transactions trains on
\* exactly the first floor(0.8 n) of them in stored order and tests on exactly
\* the others, and the accuracy it reports (to four decimals) is the number of
\* test examples predicted as labelled divided by the number of test examples.
C27_SplitStep ==
    last'.op = "evaluate" =>
        ((Evaluate("none") /\ Len(StoredDocs(txs)) >= 10) =>
            LET all     == StoredDocs(txs)
                n       == Len(all)
                m       == CHOOSE x \in 0..n : 10 * x <= 8 * n /\ 10 * (x + 1) > 8 * n
                out     == evaluateModel(Svc, txs, "none")
                temp    == LearnAll(EmptyModel, [i \in 1..m |-> all[i]])
                correct == Cardinality({i \in (m + 1)..n :
                              bayesCategorize(temp, Example(all[i]).text)
                                 = Example(all[i]).label})
            IN /\ last'.result = "200"
               /\ out.trainingData = [i \in 1..m |-> all[i]]
               /\ out.testData = [i \in 1..(n - m) |-> all[m + i]]
               /\ out.trainingData \o out.testData = all
               /\ out.totalTestSamples = n - m
               /\ Nearest(out.accuracy, correct, n - m))

C27_SplitAndAccuracy == [][C27_SplitStep]_vars

C27_Witness ==
    /\ last = [op |-> "evaluate", result |-> "200"]
    /\ Len(StoredDocs(txs)) = 11
    /\ evaluateModel(Svc, txs, "none").accuracy \notin {0, 10000}

\* the test examples with the pair (actual, predicted)
Pairs(preds, actual, predicted) ==
    {i \in DOMAIN preds : /\ preds[i].actualCategory = actual
                          /\ preds[i].predictedCategory = predicted}

\* C28: the confusion matrix of POST /evaluate-model has one cell for every
\* (actual, predicted) pair over the labels seen as actual or predicted, each
\* counting the test examples with that pair; per label, TP is the diagonal
\* cell, FP the rest of its column, FN the rest of its row, support is
\* TP + FN, and precision, recall and f1 are 0 when their denominator is 0
\* (and the quotient to four decimals otherwise).
C28_MetricsStep ==
    last'.op = "evaluate" =>
        ((Evaluate("none") /\ last'.result = "200") =>
            LET out    == evaluateModel(Svc, txs, "none")
                preds  == out.predictions
                matrix == out.confusionMatrix
                seen   == {preds[i].actualCategory : i \in DOMAIN preds}
                             \cup {preds[i].predictedCategory : i \in DOMAIN preds}
            IN /\ DOMAIN matrix = seen
               /\ DOMAIN out.metrics = seen
               /\ \A a \in seen :
                     /\ DOMAIN matrix[a] = seen
                     /\ \A p \in seen : matrix[a][p] = Cardinality(Pairs(preds, a, p))
               /\ \A c \in seen :
                     LET tp == matrix[c][c]
                         fp == Cardinality({i \in DOMAIN preds :
                                  /\ preds[i].predictedCategory = c
                                  /\ preds[i].actualCategory # c})
                         fn == Cardinality({i \in DOMAIN preds :
                                  /\ preds[i].actualCategory = c
                                  /\ preds[i].predictedCategory # c})
                         mc == out.metrics[c]
                     IN /\ mc.support = tp + fn
                        /\ IF tp + fp = 0 THEN mc.precision = 0
                           ELSE Nearest(mc.precision, tp, tp + fp)
                        /\ IF tp + fn = 0 THEN mc.recall = 0
                           ELSE Nearest(mc.recall, tp, tp + fn)
                        /\ IF tp = 0 THEN mc.f1Score = 0
                           ELSE Nearest(mc.f1Score, 2 * tp, 2 * tp + fp + fn))

C28_MatrixAndMetrics == [][C28_MetricsStep]_vars

\* a label that is never predicted (precision 0 / 0) beside one with a false positive
C28_Witness ==
    /\ last = [op |-> "evaluate", result |-> "200"]
    /\ LET out == evaluateModel(Svc, txs, "none") IN
       /\ \E c \in DOMAIN out.confusionMatrix :
             \A a \in DOMAIN out.confusionMatrix : out.confusionMatrix[a][c] = 0
       /\ \E c \in DOMAIN out.confusionMatrix :
             /\ out.confusionMatrix[c][c] > 0
             /\ \E a \in DOMAIN out.confusionMatrix \ {c} : out.confusionMatrix[a][c] > 0

\* C29: POST /cross-validate with k folds on n >= 2k fetched transactions
\* puts every fetched transaction in the test set of exactly one fold, and
\* trains each fold on exactly the transactions of the other folds.
C29_FoldStep ==
    last'.op = "crossValidate" =>
        \A kBody \in Ks :
            (CrossValidate(kBody, "none") /\ last'.result = "200") =>
                LET out == crossValidate(Svc, txs, kBody, "none")
                    all == StoredDocs(txs)
                    InTest(f, j) == out.folds[f].testStart < j /\ j <= out.folds[f].testEnd
                IN /\ Len(out.folds) = FoldCount(kBody)
                   /\ \A j \in 1..Len(all) :
                         Cardinality({f \in DOMAIN out.folds : InTest(f, j)}) = 1
                   /\ \A f \in DOMAIN out.folds :
                         Len(out.folds[f].trainingData)
                            = Cardinality({j \in 1..Len(all) :
                                 \E g \in DOMAIN out.folds \ {f} : InTest(g, j)})

C29_FoldsPartition == [][C29_FoldStep]_vars

\* ------------------------------------------------------------- resolver claim
\* C30: the find-or-create of POST /models returns an existing Category whose
\* name equals the label ignoring case and whose type is the request's, and
\* then creates none; when there is none it creates exactly one Category,
\* named lower(label) with the request's type, and returns that one.
C30_ResolveStep ==
    last'.op = "createModels" =>
        \A s \in SaldoIds, a \in Amounts, t \in Types, l \in Labels :
            CreateModels(s, a, t, l, "none") =>
                LET existing == {c \in categories :
                                    Lower(c.name) = Lower(l) /\ c.type = t}
                    created  == [name |-> Lower(l), type |-> t]
                IN IF existing # {}
                   THEN /\ categories' = categories
                        /\ last'.result = "ok" =>
                              txs'[nextId].category \in {c.name : c \in existing}
                   ELSE /\ categories' = categories \cup {created}
                        /\ Cardinality(categories') = Cardinality(categories) + 1
                        /\ last'.result = "ok" => txs'[nextId].category = created.name

C31_LiteralStep ==
    last'.op = "createModels" =>
        \A s \in SaldoIds, t \in Types, l \in PatternLabels :
            CreateModels(s, 1, t, l, "none") =>
                /\ last'.result # "PatternError"
                /\ last'.result = "ok" => Lower(txs'[nextId].category) = Lower(l)

C31_LabelIsLiteral == [][C31_LiteralStep]_vars

\* ------------------------------------------------------------- status claim
\* C32: GET /model-status reports the readiness flag, the last training date,
\* whether the primary and the backup file exist at that moment, and the
\* number of labels of the live model, in every state, also when the service
\* is not ready and the live model is not empty.
C32_StatusStep ==
    (Status /\ last'.op = "status") =>
        LET data == modelStatus(Svc) IN
        /\ data.isModelReady = isModelReady
        /\ data.lastTrainingDate = lastTrainingDate
        /\ data.modelExists = (modelFile.kind # "absent")
        /\ data.backupExists = (backupFile.kind # "absent")
        /\ data.totalCategories = Cardinality({e.label : e \in BagToSet(classifier)})

C32_StatusReportsLiveModel == [][C32_StatusStep]_vars

\* ------------------------------------------------------------- ledger claims, continued
Creates == {"createModels", "createPlain"}

\* C33: a create adds the transaction's effect to its Saldo, and the delete
\* of that transaction as the next request takes exactly that effect away
\* again and removes the transaction, so that the Saldo has the amount it had
\* before the create.
C33_InverseStep ==
    /\ (last'.op \in Creates /\ last'.result = "ok") =>
          LET tx == txs'[nextId] IN
          saldoAmt' = [saldoAmt EXCEPT ![tx.saldo] = @ + Effect(tx)]
    /\ (/\ last.op \in Creates /\ last.result = "ok"
        /\ last'.op = "delete" /\ last'.result = "ok"
        /\ txs'[nextId - 1] # txs[nextId - 1]) =>
          LET tx == txs[nextId - 1] IN
          /\ saldoAmt' = [saldoAmt EXCEPT ![tx.saldo] = @ - Effect(tx)]
          /\ txs' = [txs EXCEPT ![nextId - 1] = NoTx]

C33_DeleteInvertsCreate == [][C33_InverseStep]_vars

C33_Witness ==
    /\ last = [op |-> "delete", result |-> "ok"]
    /\ nOps = 2
    /\ nextId = 2
    /\ txs[1] = NoTx
    /\ saldoAmt = saldo0

\* ------------------------------------------------------------- classifier claims, continued
\* C34: a successful training replaces the live model: afterwards the live
\* model has learned each stored transaction exactly once and nothing else,
\* whatever it held before the call.
C34_TrainStep ==
    (last'.op = "train" /\ last'.result = "true") =>
        classifier' = LearnAll(EmptyModel, StoredDocs(txs))

C34_TrainReplacesModel == [][C34_TrainStep]_vars

\* C35: a reset answered while a training is between two of its page fetches
\* holds when that training returns, if no training was started since: the
\* service is not ready, the live model is empty and no model file exists.
C35_ResetStep ==
    (last = [op |-> "reset", result |-> "200"] /\ last'.op = "train") =>
        /\ ~isModelReady'
        /\ classifier' = EmptyModel
        /\ ~existsSync(modelFile')
        /\ ~existsSync(backupFile')

C35_ResetOutlastsTraining == [][C35_ResetStep]_vars

\* C36: a training over a finite, unmodified store returns.  It fetches pages
\* of batchSize documents at increasing offsets until a page is empty, and
\* what it has learned is one example per stored transaction, the documents
\* taken in stored order without a gap or a repetition.
C36_PageStep ==
    \A p \in Procs :
        LET all  == StoredDocs(txs)
            from == run[p].skip
            upTo == IF from + batchSize < Len(all) THEN from + batchSize ELSE Len(all)
        IN /\ (InTraining(p) /\ InTraining(p)' /\ run'[p] # run[p]) =>
                 /\ run[p].trainedCount = from
                 /\ from < Len(all)
                 /\ classifier' = LearnAll(classifier, [i \in 1..(upTo - from) |-> all[from + i]])
                 /\ run'[p].skip = from + batchSize
                 /\ run'[p].trainedCount = upTo
           /\ (InTraining(p) /\ Idle(p)') =>
                 /\ run[p].trainedCount = Len(all)
                 /\ from >= Len(all)

C36_TrainTerminates ==
    /\ [][C36_PageStep]_vars
    /\ \A p \in Procs : InTraining(p) ~> Idle(p)

C36_Witness ==
    /\ last = [op |-> "train", result |-> "true"]
    /\ \A p \in Procs : Idle(p)
    /\ nOps = 2
    /\ Len(StoredDocs(txs)) = MaxTx
    /\ ~existsSync(disk0.primary)
    /\ classifier = LearnAll(EmptyModel, StoredDocs(txs))

\* ------------------------------------------------------------- concurrent resolver claim
\* The Category store is held as the set of the (name, type) of its
\* documents, so a second document of a key shows as a Category.create that
\* runs while a Category with that lower-cased name and type is stored.
\* C37: the Category store holds at most one Category per (lower-cased name,
\* type), also after concurrent creations that resolve the same unseen label:
\* no Category.create adds a Category whose key a stored Category has.
C37_CreateStep ==
    \A p \in Procs :
        (pc[p] = "cm_createCategory" /\ pc'[p] # pc[p]) =>
            ~\E c \in categories :
                /\ Lower(c.name) = Lower(req[p].label)
                /\ c.type = req[p].type

C37_CategoriesUnique == [][C37_CreateStep]_vars

\* ------------------------------------------------------------- missing transaction claim
\* C38: an update or a delete addressed to a transaction id that is not in
\* the store, never created or already deleted, answers NotFound and changes
\* no Saldo amount and no stored document; a second delete of a transaction
\* therefore reverts nothing.
C38_GoneStep ==
    last'.op \in {"update", "delete"} =>
        \A id \in TxIds :
            (/\ txs[id] = NoTx
             /\ \/ last'.op = "delete" /\ Delete(id, "none")
                \/ last'.op = "update" /\ \E patch \in Patches : Update(id, patch, "none")) =>
                /\ last'.result = "TransactionNotFound"
                /\ UNCHANGED <<saldoAmt, txs, nextId, categories>>

C38_MissingIsNotFound == [][C38_GoneStep]_vars

\* a create, the delete of its transaction and a second delete
C38_Witness ==
    /\ last = [op |-> "delete", result |-> "TransactionNotFound"]
    /\ nOps = 3
    /\ nextId = 2
    /\ txs[1] = NoTx
    /\ saldoAmt = saldo0

\* ------------------------------------------------------------- load claim
\* C39: when loadModel has returned true the service is ready and the primary
\* model file exists, is valid and decodes to the live model; when it has
\* returned false the service is not ready and the live model is empty.
C39_LoadOutcome ==
    /\ last = [op |-> "load", result |-> "true"] =>
          /\ isModelReady
          /\ modelFile.kind = "json"
          /\ modelFile.model = classifier
    /\ last = [op |-> "load", result |-> "false"] =>
          /\ ~isModelReady
          /\ classifier = EmptyBag

\* loaded from the backup beside an empty primary
C39_Witness ==
    /\ last = [op |-> "load", result |-> "true"]
    /\ disk0.primary = EmptyFile
    /\ classifier = fromJson(disk0.backup)
    /\ modelFile = disk0.backup

====
